---- MODULE Spec2Model ----
(***************************************************************************)
(* Model of the two demonstration programs of dangling-pointer-demo:       *)
(*   dangling_pointer.cpp     two raw pointers to one heap int, delete     *)
(*                            through the first, read through the second   *)
(*   unique_pointer_demo.cpp  one heap int behind std::unique_ptr, moved   *)
(*                            from pointer1 to pointer2, freed by the      *)
(*                            destructor                                   *)
(* A run executes the main() of one of the two programs, statement by      *)
(* statement; pc is the source line of the next statement.                 *)
(***************************************************************************)
EXTENDS Integers, Sequences, FiniteSets

\* ---------------------------------------------------------------- bounds
MaxAddr == 3
MaxGarbage == 1

\* ------------------------------------------------------ program constants
NULL == 0
InitialValue == 67

Addrs == 1..MaxAddr
Values == (0..MaxGarbage) \cup {InitialValue}
Programs == {"dangling_pointer", "unique_pointer_demo"}

VARIABLES
    prog,       \* which program's main() this run executes
    pc,         \* source line of the next statement, or "done" / "crashed"
    pointer1,   \* first pointer / handle (NULL or an address)
    pointer2,   \* second pointer / handle
    live,       \* set of addresses currently allocated on the heap
    mem,        \* content of every heap address
    allocated,  \* addresses returned by operator new, in order
    freed,      \* addresses passed to operator delete, in order
    derefs,     \* every indirection made: through which pointer, valid or not
    out,        \* lines written to std::cout, in order
    exit        \* "running", "status 0" or "killed"

vars == <<prog, pc, pointer1, pointer2, live, mem, allocated, freed, derefs, out, exit>>

\* ------------------------------------------------------------ heap helpers

\* a line of console output: a text, and the address and value it shows
Line(text, addr, val) == [text |-> text, addr |-> addr, val |-> val]

\* is an indirection through p defined?
Valid(p) == p # NULL /\ p \in live

\* outcomes of evaluating *p: the stored value when p addresses a live cell,
\* otherwise undefined behaviour (any value, or a trap)
Deref(p) ==
    IF Valid(p)
    THEN {[trap |-> FALSE, val |-> mem[p]]}
    ELSE {[trap |-> TRUE, val |-> 0]} \cup {[trap |-> FALSE, val |-> v] : v \in Values}

\* new int{v} / std::make_unique<int>(v): a fresh address, initialised to v
New(a, v) ==
    /\ a \in Addrs \ live
    /\ live' = live \cup {a}
    /\ mem' = [mem EXCEPT ![a] = v]
    /\ allocated' = Append(allocated, a)

\* delete p: no effect on a null pointer; releases a live cell; deleting
\* anything else is undefined behaviour (abort, or the heap goes on)
Delete(p, next) ==
    /\ mem' = mem
    /\ IF p = NULL
       THEN /\ live' = live /\ freed' = freed
            /\ pc' = next /\ exit' = exit
       ELSE IF p \in live
       THEN /\ live' = live \ {p}
            /\ freed' = Append(freed, p)
            /\ pc' = next /\ exit' = exit
       ELSE /\ live' = live
            /\ freed' = Append(freed, p)
            /\ \/ pc' = next /\ exit' = exit
               \/ pc' = "crashed" /\ exit' = "killed"

\* std::cout << text << p << *p << std::endl
PrintDeref(text, via, p, next) ==
    \E r \in Deref(p) :
        /\ derefs' = Append(derefs, [via |-> via, addr |-> p, ok |-> Valid(p)])
        /\ IF r.trap
           THEN /\ pc' = "crashed" /\ exit' = "killed" /\ out' = out
           ELSE /\ pc' = next /\ exit' = exit
                /\ out' = Append(out, Line(text, p, r.val))

\* std::cout << text
PrintText(text, next) ==
    /\ out' = Append(out, Line(text, NULL, 0))
    /\ pc' = next

Init ==
    /\ prog \in Programs
    /\ pc = "9"
    /\ pointer1 = NULL
    /\ pointer2 = NULL
    /\ live = {}
    /\ mem \in [Addrs -> Values]
    /\ allocated = <<>>
    /\ freed = <<>>
    /\ derefs = <<>>
    /\ out = <<>>
    /\ exit = "running"

\* ------------------------------------------------- dangling_pointer.cpp

\* int* pointer1 = new int{67};
NewPointer1 ==
    /\ prog = "dangling_pointer" /\ pc = "9"
    /\ \E a \in Addrs : New(a, InitialValue) /\ pointer1' = a
    /\ pc' = "10"
    /\ UNCHANGED <<prog, pointer2, freed, derefs, out, exit>>

\* variant: pointer2 gets a cell of its own holding a copy of the value
AliasPointer2_Copy ==
    /\ prog = "dangling_pointer" /\ pc = "10"
    /\ \E a \in Addrs : New(a, mem[pointer1]) /\ pointer2' = a
    /\ pc' = "13"
    /\ UNCHANGED <<prog, pointer1, freed, derefs, out, exit>>

\* int* pointer2 = pointer1;
AliasPointer2 ==
    /\ prog = "dangling_pointer" /\ pc = "10"
    /\ pointer2' = pointer1
    /\ pc' = "13"
    /\ UNCHANGED <<prog, pointer1, live, mem, allocated, freed, derefs, out, exit>>

\* if (pointer1 != nullptr)
NullCheck ==
    /\ prog = "dangling_pointer" /\ pc = "13"
    /\ pc' = IF pointer1 # NULL THEN "14" ELSE "19"
    /\ UNCHANGED <<prog, pointer1, pointer2, live, mem, allocated, freed, derefs, out, exit>>

\* std::cout << "Allocation succeeded.\n";
PrintAllocationSucceeded ==
    /\ prog = "dangling_pointer" /\ pc = "14"
    /\ PrintText("Allocation succeeded.", "15")
    /\ UNCHANGED <<prog, pointer1, pointer2, live, mem, allocated, freed, derefs, exit>>

\* std::cout << "pointer1: " << pointer1 << " -> " << *pointer1 << std::endl;
PrintPointer1 ==
    /\ prog = "dangling_pointer" /\ pc = "15"
    /\ PrintDeref("pointer1: ", "pointer1", pointer1, "16")
    /\ UNCHANGED <<prog, pointer1, pointer2, live, mem, allocated, freed>>

\* std::cout << "pointer2: " << pointer2 << " -> " << *pointer2 << std::endl;
PrintPointer2 ==
    /\ prog = "dangling_pointer" /\ pc = "16"
    /\ PrintDeref("pointer2: ", "pointer2", pointer2, "19")
    /\ UNCHANGED <<prog, pointer1, pointer2, live, mem, allocated, freed>>

\* variant: the delete statement is left out
DeletePointer1_Skip ==
    /\ prog = "dangling_pointer" /\ pc = "19"
    /\ pc' = "20"
    /\ UNCHANGED <<prog, pointer1, pointer2, live, mem, allocated, freed, derefs, out, exit>>

\* delete pointer1;
DeletePointer1 ==
    /\ prog = "dangling_pointer" /\ pc = "19"
    /\ Delete(pointer1, "20")
    /\ UNCHANGED <<prog, pointer1, pointer2, allocated, derefs, out>>

\* variant: both pointers are reset
ResetPointer1_Both ==
    /\ prog = "dangling_pointer" /\ pc = "20"
    /\ pointer1' = NULL
    /\ pointer2' = NULL
    /\ pc' = "24"
    /\ UNCHANGED <<prog, live, mem, allocated, freed, derefs, out, exit>>

\* pointer1 = nullptr;
ResetPointer1 ==
    /\ prog = "dangling_pointer" /\ pc = "20"
    /\ pointer1' = NULL
    /\ pc' = "24"
    /\ UNCHANGED <<prog, pointer2, live, mem, allocated, freed, derefs, out, exit>>

\* std::cout << "pointer2 after delete: " << pointer2 << " -> " << *pointer2 ...
PrintPointer2AfterDelete ==
    /\ prog = "dangling_pointer" /\ pc = "24"
    /\ PrintDeref("pointer2 after delete: ", "pointer2", pointer2, "29")
    /\ UNCHANGED <<prog, pointer1, pointer2, live, mem, allocated, freed>>

\* variant: main returns a failure status
Return0_Fail ==
    /\ prog = "dangling_pointer" /\ pc = "29"
    /\ pc' = "done"
    /\ exit' = "killed"
    /\ UNCHANGED <<prog, pointer1, pointer2, live, mem, allocated, freed, derefs, out>>

\* return 0;
Return0 ==
    /\ prog = "dangling_pointer" /\ pc = "29"
    /\ pc' = "done"
    /\ exit' = "status 0"
    /\ UNCHANGED <<prog, pointer1, pointer2, live, mem, allocated, freed, derefs, out>>

\* ---------------------------------------------- unique_pointer_demo.cpp

\* variant: a destructor that releases nothing
Destroy_Leak(p, next) ==
    /\ pc' = next
    /\ UNCHANGED <<live, mem, freed, exit>>

\* std::unique_ptr<int>::~unique_ptr(): delete the held pointer, if any
Destroy(p, next) ==
    IF p # NULL
    THEN Delete(p, next)
    ELSE /\ pc' = next
         /\ UNCHANGED <<live, mem, freed, exit>>

\* std::unique_ptr<int> pointer1 = std::make_unique<int>(67);
MakeUnique ==
    /\ prog = "unique_pointer_demo" /\ pc = "9"
    /\ \E a \in Addrs : New(a, InitialValue) /\ pointer1' = a
    /\ pc' = "12"
    /\ UNCHANGED <<prog, pointer2, freed, derefs, out, exit>>

\* std::cout << "pointer1 -> " << pointer1.get() << " : value = " << *pointer1 ...
PrintUnique1 ==
    /\ prog = "unique_pointer_demo" /\ pc = "12"
    /\ PrintDeref("pointer1 -> ", "pointer1", pointer1, "16")
    /\ UNCHANGED <<prog, pointer1, pointer2, live, mem, allocated, freed>>

\* variant: pointer2 takes the address and pointer1 keeps it
MovePointer1_Share ==
    /\ prog = "unique_pointer_demo" /\ pc = "16"
    /\ pointer2' = pointer1
    /\ pointer1' = pointer1
    /\ pc' = "18"
    /\ UNCHANGED <<prog, live, mem, allocated, freed, derefs, out, exit>>

\* variant: pointer1 gives the cell up and pointer2 does not take it
MovePointer1_Drop ==
    /\ prog = "unique_pointer_demo" /\ pc = "16"
    /\ pointer2' = NULL
    /\ pointer1' = NULL
    /\ pc' = "18"
    /\ UNCHANGED <<prog, live, mem, allocated, freed, derefs, out, exit>>

\* variant: pointer2 gets a new cell holding a copy of the value
MovePointer1_Clone ==
    /\ prog = "unique_pointer_demo" /\ pc = "16"
    /\ \E a \in Addrs : New(a, mem[pointer1]) /\ pointer2' = a
    /\ pointer1' = NULL
    /\ pc' = "18"
    /\ UNCHANGED <<prog, freed, derefs, out, exit>>

\* std::unique_ptr<int> pointer2 = std::move(pointer1);
\* the move constructor takes pointer1.release(), which empties pointer1
MovePointer1 ==
    /\ prog = "unique_pointer_demo" /\ pc = "16"
    /\ pointer2' = pointer1
    /\ pointer1' = NULL
    /\ pc' = "18"
    /\ UNCHANGED <<prog, live, mem, allocated, freed, derefs, out, exit>>

\* variant: the condition is inverted
CheckMoved_Inverted ==
    /\ prog = "unique_pointer_demo" /\ pc = "18"
    /\ pc' = IF pointer1 # NULL THEN "19" ELSE "22"
    /\ UNCHANGED <<prog, pointer1, pointer2, live, mem, allocated, freed, derefs, out, exit>>

\* if (!pointer1)
CheckMoved ==
    /\ prog = "unique_pointer_demo" /\ pc = "18"
    /\ pc' = IF pointer1 = NULL THEN "19" ELSE "22"
    /\ UNCHANGED <<prog, pointer1, pointer2, live, mem, allocated, freed, derefs, out, exit>>

\* std::cout << "pointer1 is now null after move\n";
PrintNowNull ==
    /\ prog = "unique_pointer_demo" /\ pc = "19"
    /\ PrintText("pointer1 is now null after move", "22")
    /\ UNCHANGED <<prog, pointer1, pointer2, live, mem, allocated, freed, derefs, exit>>

\* variant: the last line reads through pointer1
PrintUnique2_ViaPointer1 ==
    /\ prog = "unique_pointer_demo" /\ pc = "22"
    /\ PrintDeref("pointer2 -> ", "pointer1", pointer1, "26")
    /\ UNCHANGED <<prog, pointer1, pointer2, live, mem, allocated, freed>>

\* std::cout << "pointer2 -> " << pointer2.get() << " : value = " << *pointer2 ...
PrintUnique2 ==
    /\ prog = "unique_pointer_demo" /\ pc = "22"
    /\ PrintDeref("pointer2 -> ", "pointer2", pointer2, "26")
    /\ UNCHANGED <<prog, pointer1, pointer2, live, mem, allocated, freed>>

\* return 0;  the locals are then destroyed in reverse order of declaration
ReturnScoped ==
    /\ prog = "unique_pointer_demo" /\ pc = "26"
    /\ pc' = "~pointer2"
    /\ UNCHANGED <<prog, pointer1, pointer2, live, mem, allocated, freed, derefs, out, exit>>

\* pointer2 goes out of scope
DtorPointer2 ==
    /\ prog = "unique_pointer_demo" /\ pc = "~pointer2"
    /\ Destroy(pointer2, "~pointer1")
    /\ UNCHANGED <<prog, pointer1, pointer2, allocated, derefs, out>>

\* pointer1 goes out of scope
DtorPointer1 ==
    /\ prog = "unique_pointer_demo" /\ pc = "~pointer1"
    /\ Destroy(pointer1, "exit")
    /\ UNCHANGED <<prog, pointer1, pointer2, allocated, derefs, out>>

\* main has returned 0
ExitScoped ==
    /\ prog = "unique_pointer_demo" /\ pc = "exit"
    /\ pc' = "done"
    /\ exit' = "status 0"
    /\ UNCHANGED <<prog, pointer1, pointer2, live, mem, allocated, freed, derefs, out>>

\* ------------------------------------------------------------ specification

Next ==
    \/ NewPointer1
    \/ AliasPointer2
    \/ NullCheck
    \/ PrintAllocationSucceeded
    \/ PrintPointer1
    \/ PrintPointer2
    \/ DeletePointer1
    \/ ResetPointer1
    \/ PrintPointer2AfterDelete
    \/ Return0
    \/ MakeUnique
    \/ PrintUnique1
    \/ MovePointer1
    \/ CheckMoved
    \/ PrintNowNull
    \/ PrintUnique2
    \/ ReturnScoped
    \/ DtorPointer2
    \/ DtorPointer1
    \/ ExitScoped

Spec == Init /\ [][Next]_vars

\* main runs to completion: a single thread that is never suspended
FairSpec == Spec /\ WF_vars(Next)

TypeOK ==
    /\ prog \in Programs
    /\ pointer1 \in Addrs \cup {NULL}
    /\ pointer2 \in Addrs \cup {NULL}
    /\ live \subseteq Addrs
    /\ mem \in [Addrs -> Values]
    /\ exit \in {"running", "status 0", "killed"}

\* ------------------------------------------------------------- properties

Dangling == prog = "dangling_pointer"
Scoped == prog = "unique_pointer_demo"

\* what a read of the untouched cell yields
Reads67 == {[trap |-> FALSE, val |-> InitialValue]}

IsPrefix(s, t) == Len(s) <= Len(t) /\ s = SubSeq(t, 1, Len(s))

\* scoped demo: the transfer has executed and main has not ended
AfterMove == Scoped /\ pc \in {"18", "19", "22", "26", "~pointer2"}

\* C1: in the scoped demo, at every point after the ownership transfer and up
\* to the end of main, pointer1 is empty and a read through pointer2 yields 67.
C1_MovedFromEmpty ==
    AfterMove => /\ pointer1 = NULL
                 /\ pointer2 # NULL
                 /\ Deref(pointer2) = Reads67

C1_Witness == Scoped /\ pc = "22" /\ pointer1 = NULL /\ Valid(pointer2)

\* C2: in the scoped demo, between creation and release of the cell exactly
\* one handle is non-empty and owns it: pointer1 alone before the transfer,
\* pointer2 alone after it; never both, never a live cell without an owner.
C2_SingleOwner ==
    Scoped =>
      /\ \A a \in live : (pointer1 = a) # (pointer2 = a)
      /\ (allocated # <<>> /\ freed = <<>>) =>
            LET c == allocated[1] IN
            /\ c \in live
            /\ \/ pc \in {"12", "16"} /\ pointer1 = c /\ pointer2 = NULL
               \/ AfterMove /\ pointer2 = c /\ pointer1 = NULL

C2_Witness == Scoped /\ pc = "19" /\ pointer2 \in live /\ pointer1 = NULL

\* C3: in the scoped demo the cell is released exactly once, by the destructor
\* of pointer2 at the end of main: nothing is released before it, after it the
\* cell is released and stays so, the destructor of the emptied pointer1
\* releases nothing, and a terminated run has no live cell.
C3_ReleasedOnce ==
    Scoped =>
      /\ Len(freed) <= 1
      /\ pc # "crashed"
      /\ freed # <<>> => pc \in {"~pointer1", "exit", "done"}
      /\ pc \in {"~pointer1", "exit", "done"} =>
            /\ Len(allocated) = 1
            /\ freed = allocated
            /\ live = {}

C3_Witness == Scoped /\ pc = "done" /\ Len(freed) = 1 /\ live = {}

\* C4: in the scoped demo no invalid access occurs: every indirection made is
\* through a non-empty handle to a live cell, pointer1 is read only before the
\* transfer, and the run is never killed.
C4_NoInvalidAccess ==
    Scoped =>
      /\ \A i \in DOMAIN derefs : derefs[i].ok
      /\ \A i \in DOMAIN derefs : derefs[i].via = "pointer1" => i = 1
      /\ pc = "12" => Valid(pointer1)
      /\ pc = "22" => Valid(pointer2)
      /\ pc # "crashed"

C4_Witness == Scoped /\ pc = "26" /\ Len(derefs) = 2

\* unmanaged demo: both pointers are set and the cell is not yet released
BeforeRelease == Dangling /\ pc \in {"13", "14", "15", "16", "19"}

\* C5: in the unmanaged demo, before the release, pointer1 and pointer2 hold
\* the same address, the cell is live, reads through both yield 67, and the
\* null check succeeds so that both lines are printed with equal addresses
\* and equal values.
C5_AliasesAgree ==
    /\ BeforeRelease =>
          /\ pointer1 = pointer2
          /\ Valid(pointer1)
          /\ Deref(pointer1) = Reads67
          /\ Deref(pointer2) = Reads67
    /\ (Dangling /\ pc = "19") =>
          out = << Line("Allocation succeeded.", NULL, 0),
                   Line("pointer1: ", allocated[1], InitialValue),
                   Line("pointer2: ", allocated[1], InitialValue) >>

C5_Witness == Dangling /\ pc = "19" /\ Len(out) = 3 /\ out[2].addr = out[3].addr

\* an indirection through pointer2 to a cell that had been released
StaleRead ==
    \E i \in DOMAIN derefs :
        /\ derefs[i].via = "pointer2"
        /\ ~derefs[i].ok
        /\ \E j \in DOMAIN freed : freed[j] = derefs[i].addr

\* C6: in the unmanaged demo, at the final read pointer2 addresses the cell
\* already released through pointer1 (nothing re-validates it), and every run
\* reaches that read of a released cell.
C6_UseAfterRelease ==
    /\ [](Dangling /\ pc = "24" =>
            /\ pointer2 # NULL
            /\ ~Valid(pointer2)
            /\ freed = <<pointer2>>)
    /\ [](Dangling /\ pc \in {"29", "done", "crashed"} => StaleRead)
    /\ (Dangling ~> StaleRead)

C6_Witness == Dangling /\ pc = "29" /\ StaleRead

\* the unmanaged demo was killed at the stale read, which yielded no value
KilledAtStaleRead ==
    /\ Dangling /\ pc = "crashed" /\ exit = "killed"
    /\ Len(derefs) = 3 /\ ~derefs[3].ok
    /\ Len(out) = 3

\* C7: each program terminates: the scoped demo always completes with exit
\* status 0; the unmanaged demo completes with exit status 0 whenever the
\* stale read yields a value, and otherwise ends at that read; a completed
\* run takes no further step.
C7_Terminates ==
    /\ (Scoped ~> (pc = "done" /\ exit = "status 0"))
    /\ (Dangling ~> ((pc = "done" /\ exit = "status 0") \/ KilledAtStaleRead))
    /\ [](pc = "crashed" => KilledAtStaleRead)
    /\ [](pc = "done" <=> exit = "status 0")
    /\ [][pc \notin {"done", "crashed"}]_vars

C7_Witness == Dangling /\ pc = "done" /\ exit = "status 0" /\ Len(out) = 4

\* C8: in the unmanaged demo the release step (delete pointer1; pointer1 =
\* nullptr) leaves pointer2, the output and the rest of the heap unchanged;
\* after it pointer1 is null, the cell is released and pointer2 still holds
\* its address; the cell is never released a second time.
C8_ReleaseFrame ==
    /\ [](Dangling => Len(freed) <= 1)
    /\ [][(Dangling /\ pc \in {"19", "20"}) =>
            /\ pointer2' = pointer2
            /\ mem' = mem
            /\ allocated' = allocated
            /\ out' = out
            /\ derefs' = derefs
            /\ exit' = exit
            /\ live' = live \ {pointer2}
            /\ pc' = "24" =>
                  /\ pointer1' = NULL
                  /\ pointer2' = allocated[1]
                  /\ pointer2' \notin live'
                  /\ freed' = <<pointer2'>>]_vars

C8_Witness ==
    Dangling /\ pc = "24" /\ pointer1 = NULL /\ pointer2 # NULL /\ pointer2 \notin live

\* the three lines of the scoped demo, for the cell at address c
ExpectedOut(c) ==
    << Line("pointer1 -> ", c, InitialValue),
       Line("pointer1 is now null after move", NULL, 0),
       Line("pointer2 -> ", c, InitialValue) >>

\* C9: in the scoped demo the events occur in the order: pointer1's line with
\* value 67, the transfer, the line "pointer1 is now null after move",
\* pointer2's line with value 67, the release; the emptiness line is never
\* skipped.
C9_EventOrder ==
    Scoped =>
      /\ allocated = <<>> => out = <<>>
      /\ allocated # <<>> => IsPrefix(out, ExpectedOut(allocated[1]))
      /\ pointer2 # NULL => Len(out) >= 1
      /\ Len(out) >= 2 => (pointer1 = NULL /\ pointer2 # NULL)
      /\ pc = "22" => Len(out) = 2
      /\ freed # <<>> => Len(out) = 3
      /\ pc = "done" => (Len(out) = 3 /\ freed # <<>>)

C9_Witness == Scoped /\ pc = "done" /\ Len(out) = 3 /\ out[2].text = "pointer1 is now null after move"

\* C10: in the scoped demo the transfer moves the same cell: pointer2 holds
\* afterwards the address pointer1 held before, the cell stays live with
\* value 67, nothing is allocated or released by it, and one cell only is
\* allocated in the run.
C10_SameCell ==
    /\ [](Scoped => Len(allocated) <= 1)
    /\ [][(Scoped /\ pc = "16") =>
            /\ pointer1 # NULL
            /\ pointer2' = pointer1
            /\ Valid(pointer1)
            /\ mem[pointer1] = InitialValue
            /\ live' = live
            /\ mem' = mem
            /\ allocated' = allocated
            /\ freed' = freed]_vars

C10_Witness == Scoped /\ pc = "18" /\ pointer2 = allocated[1] /\ pointer2 \in live

====
